---- MODULE Spec2Model ----
(***************************************************************************)
(* Model of the restaurant review generator, src/generate_reviews.py:      *)
(* ReviewDataGenerator (pools, ratings, text, records), generate_batch,    *)
(* generate_single_file and main with its pool of worker processes; and of *)
(* the two upload scripts, src/upload_phase1.py and src/upload_phase2.py.  *)
(*                                                                         *)
(* Every function that consumes randomness is an operator of the values it *)
(* draws.  Faker is seeded, so in a run of the program its draws are a     *)
(* function of the seed; uuid.uuid4() is not, so its values are chosen by  *)
(* the environment.  The specifications:                                   *)
(*   SpecMain       main() from the parsed command line to its end         *)
(*   SpecRerun      main() run twice over the same output directory        *)
(*   SpecShard      generate_single_file called on its own, once or twice  *)
(*   SpecRatings    one record, over every draw of _generate_ratings       *)
(*   SpecTimestamp  one record, over every result of date_time_between     *)
(*   SpecJoinDates  one pool entry over every result of date_between, and  *)
(*                  one record over every selection of pool entries        *)
(*   SpecPools      the two pool builds, over every value of uuid4         *)
(*   SpecCancel     main() interrupted by SIGINT                           *)
(*   SpecUpload     a run of either upload script                          *)
(***************************************************************************)
EXTENDS Integers, Sequences, FiniteSets, TLC

VARIABLES
    \* a generator examined on its own
    ctor,       \* the arguments a ReviewDataGenerator examined on its own is built with
    gen,        \* that generator once constructed (window, seed, pools), or NoGen
    draws,      \* the values Faker returned to its last generate_review call,
                \* or the locals of a pool build in progress
    review,     \* the record that call returned, or NoReview
    \* a run of main(), or a direct call of generate_single_file
    args,       \* the parsed command line, or NoArgs
    pc,         \* where main() is
    dir_created,     \* output_dir.mkdir(...) has run
    task,       \* per file index: the generate_single_file call for it
    disk,       \* per file index: reviews_<idx>.csv in the output directory
    previous,   \* per file index: the file an earlier run left there
    yielded,    \* the futures as_completed has handed to the loop
    completed_files,  \* main's counter
    report,     \* what the end of main() printed and saved, or NoReport
    \* a run of upload_phase1.py or upload_phase2.py
    phase,      \* which script runs: 1 or 2
    env,        \* what the script finds: credentials, ./review_data, the service
    upload_pc,  \* where the script is
    csv_files,  \* list(source_dir.glob("*.csv"))
    cursor,     \* the position of the for loop in csv_files
    success_count,   \* the script's counter
    attempted,  \* the names of the files the loop body has run for, in order
    failed_names,    \* the names printed in "Failed ..." lines, in order
    blobs,      \* the names of the blobs uploaded to the container
    tally       \* the "Files uploaded: N/M" line, or NoTally

unitvars == <<ctor, gen, draws, review>>
flowvars == <<args, pc, dir_created, task, disk, previous, yielded, completed_files, report>>
uploadvars == <<phase, env, upload_pc, csv_files, cursor, success_count, attempted,
                failed_names, blobs, tally>>
vars == <<unitvars, flowvars, uploadvars>>

Min2(a, b) == IF a < b THEN a ELSE b
Max2(a, b) == IF a > b THEN a ELSE b

-----------------------------------------------------------------------------
(* Dates.  A 'YYYY-MM-DD' string is the triple <<year, month, day>>; a      *)
(* datetime.date is its day number counted from 1970-01-01; a datetime is   *)
(* its number of seconds from 1970-01-01 00:00:00 (Faker works on           *)
(* timegm timestamps).  strptime and strftime convert between them.         *)

\* The years the model's dates lie in: the windows of DateArgs and the five
\* years of look-back before them.
FirstYear == 2015
LastYear == 2026
SecondsPerDay == 86400

IsLeap(y) == ((y % 4) = 0 /\ (y % 100) # 0) \/ (y % 400) = 0

DaysInMonth(y, m) ==
    IF m = 2 THEN (IF IsLeap(y) THEN 29 ELSE 28)
    ELSE IF m \in {4, 6, 9, 11} THEN 30 ELSE 31

\* leap years in 1970 .. y-1
LeapsBefore(y) == (((y - 1) \div 4) - ((y - 1) \div 100) + ((y - 1) \div 400)) - 477

DaysBeforeYear(y) == 365 * (y - 1970) + LeapsBefore(y)

\* days of the year before the first of month m
DaysBeforeMonth(y, m) ==
    <<0, 31, 59, 90, 120, 151, 181, 212, 243, 273, 304, 334>>[m]
        + (IF m > 2 /\ IsLeap(y) THEN 1 ELSE 0)

\* a valid calendar date
IsDate(s) ==
    /\ s[1] \in FirstYear .. LastYear
    /\ s[2] \in 1 .. 12
    /\ s[3] \in 1 .. DaysInMonth(s[1], s[2])

\* date -> day number (what strptime(s, '%Y-%m-%d').date() denotes)
DayNumber(s) == DaysBeforeYear(s[1]) + DaysBeforeMonth(s[1], s[2]) + (s[3] - 1)

\* datetime.strptime(s, '%Y-%m-%d'): midnight of that date
Strptime(s) == DayNumber(s) * SecondsPerDay

\* day number -> <<year, month, day>> (strftime('%Y-%m-%d') of a date)
StrftimeDate(n) ==
    LET y == CHOOSE yy \in FirstYear .. LastYear :
                 DaysBeforeYear(yy) <= n /\ n < DaysBeforeYear(yy + 1)
        r == n - DaysBeforeYear(y)
        m == CHOOSE mm \in 1 .. 12 :
                 DaysBeforeMonth(y, mm) <= r /\ r < DaysBeforeMonth(y, mm) + DaysInMonth(y, mm)
    IN  <<y, m, r - DaysBeforeMonth(y, m) + 1>>

\* strftime('%Y-%m-%d %H:%M:%S') of a datetime
StrftimeDateTime(t) ==
    LET d == StrftimeDate(t \div SecondsPerDay)
        r == t % SecondsPerDay
    IN  <<d[1], d[2], d[3], r \div 3600, (r % 3600) \div 60, r % 60>>

\* datetime.date(): the day a datetime falls on
DateOf(t) == t \div SecondsPerDay

\* lexicographic order on formatted dates and datetimes (string comparison of
\* zero-padded fields)
RECURSIVE LexLess(_, _, _)
LexLess(a, b, i) ==
    IF i > Len(a) \/ i > Len(b) THEN FALSE
    ELSE IF a[i] # b[i] THEN a[i] < b[i]
    ELSE LexLess(a, b, i + 1)

FmtLess(a, b) == LexLess(a, b, 1)
FmtLeq(a, b) == a = b \/ FmtLess(a, b)

-----------------------------------------------------------------------------
(* _generate_ratings, src/generate_reviews.py:140-158                      *)

\* random_int(-1, 1) and random_int(1, 5): the values the draws range over
ModifierDraws == -1 .. 1
FoodDraws == 1 .. 5

\* max(1, min(5, x))
Clamp15(x) == Max2(1, Min2(5, x))

\* int((food*0.4 + price*0.3 + staff*0.3) + 0.5).  The weighted sum is kept
\* in tenths; int() truncates toward zero and the operand is positive.  The
\* binary floating-point sum was compared with the exact one for all 125
\* triples of ratings: both truncate to the same integer.
WeightedTenths(food, price, staff) == food * 4 + price * 3 + staff * 3

\* A slip that forgets the "+ 0.5": int() alone truncates.
OverallTruncating(food, price, staff) == WeightedTenths(food, price, staff) \div 10

\* int(weighted + 0.5)
OverallUnclamped(food, price, staff) == (WeightedTenths(food, price, staff) + 5) \div 10

\* A slip that forgets the clamp.
PriceRatingUnclamped(food, base_modifier, offset) == food + base_modifier + offset

\* max(1, min(5, food_rating + base_modifier + random_int(-1, 1)))
PriceRating(food, base_modifier, offset) == Clamp15(food + base_modifier + offset)

GenerateRatings(base_modifier, food, u1, u2) ==
    LET price == PriceRating(food, base_modifier, u1)
        staff == PriceRating(food, base_modifier, u2)
    IN  [food_rating    |-> food,
         price_rating   |-> price,
         staff_rating   |-> staff,
         overall_rating |-> Clamp15(OverallUnclamped(food, price, staff))]

-----------------------------------------------------------------------------
(* Faker.  self.faker is seeded by seed_instance(seed): from then on what   *)
(* it returns is a function of the seed and of the number of draws made.    *)
(* The generator behind it is modelled as a linear congruential one.        *)

RngModulus == 65536
RngMultiplier == 25173
RngIncrement == 13849
RngShift == 16

\* Faker.seed_instance(seed): the state of the seeded generator
SeedInstance(seed) == seed % RngModulus

\* the state after one draw
RngStep(st) == (RngMultiplier * st + RngIncrement) % RngModulus

\* the state after k draws
RECURSIVE RngAfter(_, _)
RngAfter(st, k) == IF k = 0 THEN st ELSE RngAfter(RngStep(st), k - 1)

\* the raw value of the draw made in state st
RngValue(st) == RngStep(st) \div RngShift

\* random_int(lo, hi), and the index random_element picks in a list of n
RandomInt(st, lo, hi) == lo + (RngValue(st) % (hi - lo + 1))
RandomIndex(st, n) == 1 + (RngValue(st) % n)

\* What the providers first_name, last_name, city, postcode, country,
\* company and sentence return: one of VocabSize values each.
VocabSize == 2
RandomWord(st) == RandomInt(st, 1, VocabSize)

\* date_between(start_date, end_date) on datetimes: a date from start_date's
\* day through end_date's day, both included.  The set of its results, and
\* the one the seeded generator returns in state st.
DateBetween(start_date, end_date) == DateOf(start_date) .. DateOf(end_date)
RandomDate(st, start_date, end_date) ==
    DateOf(start_date) + (RngValue(st) % (DateOf(end_date) - DateOf(start_date) + 1))

\* date_time_between(start_date, end_date) on datetimes: an instant from
\* start_date through end_date, both included, at one-second resolution.
DateTimeBetween(start_date, end_date) == start_date .. end_date
RandomDateTime(st, start_date, end_date) ==
    LET span == end_date - start_date
        d    == RngValue(st) % (span \div SecondsPerDay + 1)
        room == Min2(SecondsPerDay - 1, span - d * SecondsPerDay)
    IN  start_date + d * SecondsPerDay + ((RngValue(RngStep(st)) * 21) % (room + 1))

-----------------------------------------------------------------------------
(* uuid.uuid4() is not seeded: it reads the operating system's entropy.     *)
(* A generator's reads are the successive values of one of NumEntropy       *)
(* streams, chosen by the environment when the generator is constructed.    *)

NumUuids == 3
NumEntropy == 2
UUIDs == 1 .. NumUuids
Entropies == 1 .. NumEntropy

\* the k-th value (k = 0, 1, ...) of entropy stream e; stream e repeats each
\* value e times, so streams 2 and up make the uniqueness loops redraw
Uuid4(e, k) == 1 + ((e + (k \div e)) % NumUuids)

\* the index of the first read at or after the k-th whose value is not in ids:
\* "while True: id = str(uuid.uuid4()); if id not in ids: break"
RECURSIVE FreshRead(_, _, _)
FreshRead(e, k, ids) == IF Uuid4(e, k) \notin ids THEN k ELSE FreshRead(e, k + 1, ids)

-----------------------------------------------------------------------------
(* ReviewDataGenerator: construction and the pools,                         *)
(* src/generate_reviews.py:25-97                                            *)

\* _generate_user_pool(2000) and _generate_location_pool(500), line 41-42
UserPoolSize == 2
LocationPoolSize == 1

\* timedelta(days=365 * 2), timedelta(days=30), timedelta(days=365 * 5),
\* timedelta(days=60), as seconds
UserLookbackStart == 365 * 2 * SecondsPerDay
UserLookbackEnd == 30 * SecondsPerDay
LocationLookbackStart == 365 * 5 * SecondsPerDay
LocationLookbackEnd == 60 * SecondsPerDay

\* a slip in the sign of the end offset: users may join after the window opens
UserJoinEndAfter(min_date) == min_date + UserLookbackEnd

\* the arguments of the two date_between calls
UserJoinStart(min_date) == min_date - UserLookbackStart
UserJoinEnd(min_date) == min_date - UserLookbackEnd
LocationJoinStart(min_date) == min_date - LocationLookbackStart
LocationJoinEnd(min_date) == min_date - LocationLookbackEnd

\* the dict appended to self.users, line 61-69
MakeUser(user_id, join_date, first_name, last_name, city, postal_code, country) ==
    [user_id     |-> user_id,
     first_name  |-> first_name,
     last_name   |-> last_name,
     city        |-> city,
     postal_code |-> postal_code,
     country     |-> country,
     join_date   |-> join_date]

\* the dict appended to self.locations, line 88-97
MakeLocation(location_id, join_date, name, city, postal_code, country, owner_first, owner_last) ==
    [location_id      |-> location_id,
     name             |-> name,
     city             |-> city,
     postal_code      |-> postal_code,
     country          |-> country,
     owner_first_name |-> owner_first,
     owner_last_name  |-> owner_last,
     join_date        |-> join_date]

\* One pass of the loop body of _generate_user_pool with the seeded Faker in
\* state st: date_between first, then the fields in the order of the dict.
UserDraws == 6
SeededUser(st, min_date, user_id) ==
    MakeUser(user_id,
             RandomDate(st, UserJoinStart(min_date), UserJoinEnd(min_date)),
             RandomWord(RngAfter(st, 1)), RandomWord(RngAfter(st, 2)),
             RandomWord(RngAfter(st, 3)), RandomWord(RngAfter(st, 4)),
             RandomWord(RngAfter(st, 5)))

LocationDraws == 7
SeededLocation(st, min_date, location_id) ==
    MakeLocation(location_id,
                 RandomDate(st, LocationJoinStart(min_date), LocationJoinEnd(min_date)),
                 RandomWord(RngAfter(st, 1)), RandomWord(RngAfter(st, 2)),
                 RandomWord(RngAfter(st, 3)), RandomWord(RngAfter(st, 4)),
                 RandomWord(RngAfter(st, 5)), RandomWord(RngAfter(st, 6)))

UserIds(users) == {users[j].user_id : j \in 1 .. Len(users)}
LocationIds(locations) == {locations[j].location_id : j \in 1 .. Len(locations)}

\* _generate_user_pool(num_users) on generator g: num_users entries, each with
\* the first identifier read that is not in user_ids
RECURSIVE AppendUsers(_, _)
AppendUsers(g, n) ==
    IF n = 0 THEN g
    ELSE LET k == FreshRead(g.entropy, g.uuid_reads, UserIds(g.users))
             u == SeededUser(g.rng, g.min_date, Uuid4(g.entropy, k))
         IN  AppendUsers([g EXCEPT !.users = Append(@, u),
                                   !.rng = RngAfter(@, UserDraws),
                                   !.uuid_reads = k + 1], n - 1)

GenerateUserPool(g, num_users) == AppendUsers([g EXCEPT !.users = <<>>], num_users)

RECURSIVE AppendLocations(_, _)
AppendLocations(g, n) ==
    IF n = 0 THEN g
    ELSE LET k == FreshRead(g.entropy, g.uuid_reads, LocationIds(g.locations))
             l == SeededLocation(g.rng, g.min_date, Uuid4(g.entropy, k))
         IN  AppendLocations([g EXCEPT !.locations = Append(@, l),
                                       !.rng = RngAfter(@, LocationDraws),
                                       !.uuid_reads = k + 1], n - 1)

GenerateLocationPool(g, num_locations) ==
    AppendLocations([g EXCEPT !.locations = <<>>], num_locations)

\* ReviewDataGenerator(min_date, max_date, seed), its uuid4 reads taken from
\* entropy stream e
NewGenerator(min_date, max_date, seed, e) ==
    GenerateLocationPool(
        GenerateUserPool([min_date   |-> min_date,
                          max_date   |-> max_date,
                          seed       |-> seed,
                          rng        |-> SeedInstance(seed),
                          entropy    |-> e,
                          uuid_reads |-> 0,
                          users      |-> <<>>,
                          locations  |-> <<>>],
                         UserPoolSize),
        LocationPoolSize)

-----------------------------------------------------------------------------
(* _generate_review_text, src/generate_reviews.py:99-138                    *)

\* the sizes of the lists templates, adjectives, experiences, recommends,
\* aspects and details
NumTemplates == 4
NumAdjectives == 5
NumExperiences == 5
NumRecommends == 3
NumAspects == 5
NumDetails == 10
\* "if self.faker.random_int(1, 10) > 7" and "review[:500]"
SentenceRollMax == 10
SentenceThreshold == 7
MaxTextLength == 500

\* template.format(...): a text is the sequence of its pieces, the template
\* first and then the values of the slots that template has
FormatTemplate(template, adjective, experience, recommend, aspect, detail) ==
    CASE template = 1 -> <<1, adjective, detail>>
      [] template = 2 -> <<2, experience, detail>>
      [] template = 3 -> <<3, recommend, detail>>
      [] template = 4 -> <<4, aspect, adjective, detail>>

\* review[:500], on pieces
Truncate(text) == SubSeq(text, 1, Min2(Len(text), MaxTextLength))

ReviewText(d) ==
    LET body == FormatTemplate(d.template, d.adjective, d.experience,
                               d.recommend, d.aspect, d.detail)
    IN  Truncate(IF d.roll > SentenceThreshold THEN Append(body, d.sentence) ELSE body)

-----------------------------------------------------------------------------
(* generate_review, src/generate_reviews.py:160-195                         *)

\* Everything the seeded Faker returns to one generate_review call of
\* generator g, in the order of the calls: the user, the location, the four
\* draws of _generate_ratings, the timestamp, and the draws of
\* _generate_review_text (which the dict literal calls last).
SeededDraws(g) ==
    [user          |-> RandomIndex(g.rng, Len(g.users)),
     location      |-> RandomIndex(RngAfter(g.rng, 1), Len(g.locations)),
     base_modifier |-> RandomInt(RngAfter(g.rng, 2), -1, 1),
     food          |-> RandomInt(RngAfter(g.rng, 3), 1, 5),
     u1            |-> RandomInt(RngAfter(g.rng, 4), -1, 1),
     u2            |-> RandomInt(RngAfter(g.rng, 5), -1, 1),
     reviewed_at   |-> RandomDateTime(RngAfter(g.rng, 6), g.min_date, g.max_date),
     template      |-> RandomIndex(RngAfter(g.rng, 7), NumTemplates),
     adjective     |-> RandomIndex(RngAfter(g.rng, 8), NumAdjectives),
     experience    |-> RandomIndex(RngAfter(g.rng, 9), NumExperiences),
     recommend     |-> RandomIndex(RngAfter(g.rng, 10), NumRecommends),
     aspect        |-> RandomIndex(RngAfter(g.rng, 11), NumAspects),
     detail        |-> RandomIndex(RngAfter(g.rng, 12), NumDetails),
     roll          |-> RandomInt(RngAfter(g.rng, 13), 1, SentenceRollMax),
     sentence      |-> RandomWord(RngAfter(g.rng, 14))]

\* the number of draws the call made: faker.sentence() only after a high roll
DrawsMade(d) == IF d.roll > SentenceThreshold THEN 15 ELSE 14

\* the entry of the pool a record's location fields are copied from
ReviewLocation(g, d) == g.locations[d.location]

\* a slip that takes the identifier from one entry and the profile from the next
ReviewUserProfileShifted(g, d) ==
    [g.users[1 + (d.user % Len(g.users))] EXCEPT !.user_id = g.users[d.user].user_id]
\* the entry of the pool a record's user fields are copied from
ReviewUser(g, d) == g.users[d.user]

\* the dict generate_review returns, for the draws d
GenerateReview(g, review_id, d) ==
    LET user     == ReviewUser(g, d)
        location == ReviewLocation(g, d)
        rat      == GenerateRatings(d.base_modifier, d.food, d.u1, d.u2)
    IN  [review_id                 |-> review_id,
         user_id                   |-> user.user_id,
         user_first_name           |-> user.first_name,
         user_last_name            |-> user.last_name,
         user_city                 |-> user.city,
         user_postal_code          |-> user.postal_code,
         user_country              |-> user.country,
         user_join_date            |-> StrftimeDate(user.join_date),
         location_id               |-> location.location_id,
         location_name             |-> location.name,
         location_city             |-> location.city,
         location_postal_code      |-> location.postal_code,
         location_country          |-> location.country,
         location_owner_first_name |-> location.owner_first_name,
         location_owner_last_name  |-> location.owner_last_name,
         location_join_date        |-> StrftimeDate(location.join_date),
         review_text               |-> ReviewText(d),
         food_rating               |-> rat.food_rating,
         price_rating              |-> rat.price_rating,
         staff_rating              |-> rat.staff_rating,
         overall_rating            |-> rat.overall_rating,
         reviewed_at               |-> StrftimeDateTime(d.reviewed_at)]

\* the generator after the call: the seeded Faker has moved on
AfterReview(g, d) == [g EXCEPT !.rng = RngAfter(@, DrawsMade(d))]

NoReview == <<>>
NoDraws == <<>>
NoGen == <<>>

-----------------------------------------------------------------------------
(* The inputs.  --min-date and --max-date are 'YYYY-MM-DD' strings; the     *)
(* windows start at the turn of a year and around a leap day.               *)

MinDateArgs == {<<2023, 1, 1>>, <<2024, 2, 29>>, <<2024, 3, 1>>}
MaxWindowDays == 2
\* --max-date: from one day before --min-date to MaxWindowDays after it
MaxDateArgs(min_arg) == {StrftimeDate(DayNumber(min_arg) + k) : k \in -1 .. MaxWindowDays}
\* --seed (42 is the default)
SeedArgs == {42, 43}

\* the calendar date n years before date s (29 February maps to 1 March)
YearsBefore(s, n) ==
    IF s[2] = 2 /\ s[3] = 29 /\ ~IsLeap(s[1] - n) THEN <<s[1] - n, 3, 1>>
    ELSE <<s[1] - n, s[2], s[3]>>

-----------------------------------------------------------------------------
(* generate_batch and generate_single_file,                                 *)
(* src/generate_reviews.py:197-241                                          *)

MaxFiles == 2
MaxRows == 2
MaxWorkers == 2
FileIdx == 0 .. MaxFiles - 1

\* generate_batch(start_idx, num_rows): "for i in range(num_rows)", each pass
\* one uuid4 read and one generate_review; start_idx is not used
RECURSIVE AppendReviews(_, _, _)
AppendReviews(g, batch, n) ==
    IF n <= 0 THEN [gen |-> g, batch |-> batch]
    ELSE LET d == SeededDraws(g)
             r == GenerateReview(g, Uuid4(g.entropy, g.uuid_reads), d)
         IN  AppendReviews([AfterReview(g, d) EXCEPT !.uuid_reads = @ + 1],
                           Append(batch, r), n - 1)

GenerateBatch(g, num_rows) == AppendReviews(g, <<>>, num_rows)

\* "seed = seed_base + file_idx"
FileSeed(seed_base, file_idx) == seed_base + file_idx

NoFile == [exists |-> FALSE, rows |-> <<>>]
\* the csv file: the header line, then writerows(data)
CsvFile(data) == [exists |-> TRUE, rows |-> data]

\* A call generate_single_file(file_idx, num_rows, min_date, max_date,
\* output_dir, seed_base): its arguments and how far it is.
\*   "pending"   submitted or about to be called, not started
\*   "generator" ReviewDataGenerator(min_date, max_date, seed) is constructed
\*   "batch"     generate_batch has returned data
\*   "done"      the file is written and its name returned
\*   "failed"    the call raised
NoTask == [status |-> "none", num_rows |-> 0, min_date |-> 0, max_date |-> 0,
           seed_base |-> 0, gen |-> NoGen, data |-> <<>>]
PendingTask(num_rows, min_date, max_date, seed_base) ==
    [status |-> "pending", num_rows |-> num_rows, min_date |-> min_date,
     max_date |-> max_date, seed_base |-> seed_base, gen |-> NoGen, data |-> <<>>]

Running(i) == task[i].status \in {"generator", "batch"}
Over(i) == task[i].status \in {"done", "failed"}

\* line 216-217: the seed of the file, and the generator with its pools
TaskConstruct(i) ==
    /\ task[i].status = "pending"
    /\ \E e \in Entropies :
          task' = [task EXCEPT ![i].status = "generator",
                               ![i].gen = NewGenerator(task[i].min_date, task[i].max_date,
                                              FileSeed(task[i].seed_base, i), e)]

\* line 220
TaskGenerateBatch(i) ==
    /\ task[i].status = "generator"
    /\ LET out == GenerateBatch(task[i].gen, task[i].num_rows)
       IN  task' = [task EXCEPT ![i].status = "batch",
                                ![i].gen = out.gen,
                                ![i].data = out.batch]
    /\ UNCHANGED <<uploadvars, unitvars, args, pc, dir_created, disk, previous, yielded,
                   completed_files, report>>

\* line 233-241: the file is opened for writing (an earlier one is replaced),
\* header and rows are written, the name is returned
TaskWrite(i) ==
    /\ task[i].status = "batch"
    /\ task' = [task EXCEPT ![i].status = "done"]
    /\ disk' = [disk EXCEPT ![i] = CsvFile(task[i].data)]
    /\ UNCHANGED <<uploadvars, unitvars, args, pc, dir_created, previous, yielded,
                   completed_files, report>>

\* line 236: open() raises OSError (no such directory, no permission, no
\* space); the call ends with that exception
TaskWriteFails(i) ==
    /\ task[i].status = "batch"
    /\ task' = [task EXCEPT ![i].status = "failed"]
    /\ UNCHANGED <<uploadvars, unitvars, args, pc, dir_created, disk, previous, yielded,
                   completed_files, report>>

-----------------------------------------------------------------------------
(* main, src/generate_reviews.py:244-418                                    *)

NoArgs == <<>>
NoReport == <<>>

\* a slip that lets an empty window through
ArgsRejectedStrictly(a) ==
    \/ a.files <= 0
    \/ a.rows <= 0
    \/ Strptime(a.min_date) > Strptime(a.max_date)
    \/ a.workers <= 0

\* line 308-315: the four checks that end in parser.error
ArgsRejected(a) ==
    \/ a.files <= 0
    \/ a.rows <= 0
    \/ Strptime(a.min_date) >= Strptime(a.max_date)
    \/ a.workers <= 0

\* parser.error prints the message and exits with status 2
Validate ==
    /\ pc = "validate"
    /\ pc' = IF ArgsRejected(args) THEN "config_error" ELSE "mkdir"
    /\ UNCHANGED <<uploadvars, unitvars, args, dir_created, task, disk, previous, yielded,
                   completed_files, report>>

\* line 318-328
MakeOutputDir ==
    /\ pc = "mkdir"
    /\ dir_created' = TRUE
    /\ pc' = "submit"
    /\ UNCHANGED <<uploadvars, unitvars, args, task, disk, previous, yielded, completed_files, report>>

Submitted == {i \in FileIdx : task[i].status # "none"}

\* line 334-344: executor.submit for the next file index; after the last one
\* main goes on to the completion loop with completed_files = 0
Submit ==
    /\ pc = "submit"
    /\ LET i == Cardinality(Submitted)
       IN  /\ i < args.files
           /\ task' = [task EXCEPT ![i] = PendingTask(args.rows, Strptime(args.min_date),
                                                      Strptime(args.max_date), args.seed)]
           /\ pc' = IF i + 1 = args.files THEN "collect" ELSE "submit"
    /\ completed_files' = 0
    /\ UNCHANGED <<uploadvars, unitvars, args, dir_created, disk, previous, yielded, report>>

\* A worker process of the pool takes the oldest work item when fewer than
\* max_workers calls are running; the pool goes on doing so while main is in
\* the executor's __exit__.
WorkerStart(i) ==
    /\ pc \in {"submit", "collect", "unwinding", "interrupted"}
    /\ Cardinality({j \in FileIdx : Running(j)}) < args.workers
    /\ \A j \in FileIdx : task[j].status = "pending" => i <= j
    /\ TaskConstruct(i)
    /\ UNCHANGED <<uploadvars, unitvars, args, pc, dir_created, disk, previous, yielded,
                   completed_files, report>>

\* line 349-352: as_completed yields a finished future, result() returns the
\* file name, the counter goes up; after the last future the loop and both
\* with blocks end
CollectResult(i) ==
    /\ pc = "collect"
    /\ i \notin yielded
    /\ task[i].status = "done"
    /\ yielded' = yielded \cup {i}
    /\ completed_files' = completed_files + 1
    /\ pc' = IF yielded' = 0 .. args.files - 1 THEN "report" ELSE "collect"
    /\ UNCHANGED <<uploadvars, unitvars, args, dir_created, task, disk, previous, report>>

\* line 350: the future holds the exception of its call and result() raises
\* it; nothing catches it, so it leaves the loop and the tqdm block and
\* reaches the executor's __exit__
CollectException(i) ==
    /\ pc = "collect"
    /\ i \notin yielded
    /\ task[i].status = "failed"
    /\ yielded' = yielded \cup {i}
    /\ pc' = "unwinding"
    /\ UNCHANGED <<uploadvars, unitvars, args, dir_created, task, disk, previous, completed_files, report>>

\* line 330-359: SIGINT reaches the main process while it submits or waits in
\* as_completed.  No handler is installed and nothing catches
\* KeyboardInterrupt: it leaves the loops and reaches the executor's __exit__
\* as any exception does.  No future is cancelled.
Interrupt ==
    /\ pc \in {"submit", "collect"}
    /\ pc' = "interrupted"
    /\ UNCHANGED <<uploadvars, unitvars, args, dir_created, task, disk, previous, yielded,
                   completed_files, report>>

\* line 330: __exit__ is shutdown(wait=True): it returns when every submitted
\* call is over; then the exception leaves main and the process ends with a
\* traceback
Unwind ==
    /\ pc \in {"unwinding", "interrupted"}
    /\ \A i \in Submitted : Over(i)
    /\ pc' = "crashed"
    /\ UNCHANGED <<uploadvars, unitvars, args, dir_created, task, disk, previous, yielded,
                   completed_files, report>>

\* line 361-418: the statistics are printed and generation_metadata.json is
\* written
Report ==
    /\ pc = "report"
    /\ report' = [files_generated |-> args.files,
                  total_records   |-> args.files * args.rows,
                  metadata_saved  |-> TRUE]
    /\ pc' = "done"
    /\ UNCHANGED <<uploadvars, unitvars, args, dir_created, task, disk, previous, yielded, completed_files>>

FlowIdle ==
    /\ args = NoArgs
    /\ pc = "idle"
    /\ dir_created = FALSE
    /\ task = [i \in FileIdx |-> NoTask]
    /\ disk = [i \in FileIdx |-> NoFile]
    /\ previous = [i \in FileIdx |-> NoFile]
    /\ yielded = {}
    /\ completed_files = 0
    /\ report = NoReport

NoEnv == <<>>
NoTally == <<>>

\* no upload script runs
UploadIdle ==
    /\ phase = 0
    /\ env = NoEnv
    /\ upload_pc = "idle"
    /\ csv_files = <<>>
    /\ cursor = 0
    /\ success_count = 0
    /\ attempted = <<>>
    /\ failed_names = <<>>
    /\ blobs = {}
    /\ tally = NoTally

UnitIdle ==
    /\ ctor = NoArgs
    /\ gen = NoGen
    /\ draws = NoDraws
    /\ review = NoReview

\* the command lines: counts from -1 up, one --min-date with the --max-date
\* values around it, the default seed
ArgsSpace ==
    [files : -1 .. MaxFiles, rows : -1 .. MaxRows, workers : -1 .. MaxWorkers,
     min_date : {<<2023, 1, 1>>}, max_date : MaxDateArgs(<<2023, 1, 1>>), seed : {42}]

InitMain ==
    /\ UnitIdle
    /\ UploadIdle
    /\ args \in ArgsSpace
    /\ pc = "validate"
    /\ dir_created = FALSE
    /\ task = [i \in FileIdx |-> NoTask]
    /\ disk = [i \in FileIdx |-> NoFile]
    /\ previous = [i \in FileIdx |-> NoFile]
    /\ yielded = {}
    /\ completed_files = 0
    /\ report = NoReport

NextMain ==
    \/ Validate
    \/ MakeOutputDir
    \/ Submit
    \/ \E i \in FileIdx : WorkerStart(i)
    \/ \E i \in FileIdx : TaskGenerateBatch(i)
    \/ \E i \in FileIdx : TaskWrite(i)
    \/ \E i \in FileIdx : TaskWriteFails(i)
    \/ \E i \in FileIdx : CollectResult(i)
    \/ \E i \in FileIdx : CollectException(i)
    \/ Unwind
    \/ Report

SpecMain == InitMain /\ [][NextMain]_vars

\* A second run of the same command line over the same output directory,
\* with any number of workers: the files of the first run are still there.
RunAgain ==
    /\ pc = "done"
    /\ \A i \in FileIdx : ~previous[i].exists
    /\ previous' = disk
    /\ \E w \in 1 .. MaxWorkers : args' = [args EXCEPT !.workers = w]
    /\ pc' = "validate"
    /\ task' = [i \in FileIdx |-> NoTask]
    /\ yielded' = {}
    /\ completed_files' = 0
    /\ report' = NoReport
    /\ UNCHANGED <<uploadvars, unitvars, dir_created, disk>>

NextRerun == NextMain \/ RunAgain

\* the runs whose command line passes the checks
InitRerun == InitMain /\ ~ArgsRejected(args)

SpecRerun == InitRerun /\ [][NextRerun]_vars

\* A run that may be interrupted from the keyboard or by kill -INT.
NextCancel == NextMain \/ Interrupt

SpecCancel == InitRerun /\ [][NextCancel]_vars

-----------------------------------------------------------------------------
(* generate_single_file called on its own, outside main: any row count from *)
(* -1 up, an existing output directory, a valid window.                     *)

InitShard ==
    /\ UnitIdle
    /\ UploadIdle
    /\ args = NoArgs
    /\ pc = "direct"
    /\ dir_created = TRUE
    /\ \E i \in FileIdx, n \in -1 .. MaxRows, a \in MinDateArgs, sd \in SeedArgs :
       \E b \in MaxDateArgs(a) :
          /\ Strptime(a) < Strptime(b)
          /\ task = [j \in FileIdx |->
                        IF j = i THEN PendingTask(n, Strptime(a), Strptime(b), sd)
                        ELSE NoTask]
    /\ disk = [i \in FileIdx |-> NoFile]
    /\ previous = [i \in FileIdx |-> NoFile]
    /\ yielded = {}
    /\ completed_files = 0
    /\ report = NoReport

\* the call starts in the caller's process
DirectStart(i) ==
    /\ pc = "direct"
    /\ TaskConstruct(i)
    /\ UNCHANGED <<uploadvars, unitvars, args, pc, dir_created, disk, previous, yielded,
                   completed_files, report>>

\* the caller calls generate_single_file again with the same arguments
CallAgain(i) ==
    /\ pc = "direct"
    /\ task[i].status = "done"
    /\ ~previous[i].exists
    /\ previous' = [previous EXCEPT ![i] = disk[i]]
    /\ task' = [task EXCEPT ![i] = PendingTask(task[i].num_rows, task[i].min_date,
                                               task[i].max_date, task[i].seed_base)]
    /\ UNCHANGED <<uploadvars, unitvars, args, pc, dir_created, disk, yielded, completed_files, report>>

NextShard ==
    \/ \E i \in FileIdx : DirectStart(i)
    \/ \E i \in FileIdx : TaskGenerateBatch(i)
    \/ \E i \in FileIdx : TaskWrite(i)
    \/ \E i \in FileIdx : TaskWriteFails(i)
    \/ \E i \in FileIdx : CallAgain(i)

SpecShard == InitShard /\ [][NextShard]_vars

-----------------------------------------------------------------------------
(* A generator examined on its own.  It is constructed over a valid window  *)
(* and asked for one record.  The seeded Faker decides every draw except    *)
(* the ones a specification ranges over all their possible values:          *)
(*   SpecRatings    the four draws of _generate_ratings                     *)
(*   SpecTimestamp  the result of date_time_between                         *)
(*   SpecJoinDates  the result of one date_between call of a pool build,    *)
(*                  and the entries random_element selects                  *)

InitUnit ==
    /\ ctor \in {[min_date |-> Strptime(a), max_date |-> Strptime(b),
                  seed |-> sd, entropy |-> e] :
                    <<a, b>> \in {p \in MinDateArgs \X UNION {MaxDateArgs(x) : x \in MinDateArgs} :
                                    /\ p[2] \in MaxDateArgs(p[1])
                                    /\ Strptime(p[1]) < Strptime(p[2])},
                    sd \in SeedArgs, e \in Entropies}
    /\ gen = NoGen
    /\ draws = NoDraws
    /\ review = NoReview
    /\ FlowIdle
    /\ UploadIdle

\* ReviewDataGenerator(min_date, max_date, seed)
Construct ==
    /\ gen = NoGen
    /\ gen' = NewGenerator(ctor.min_date, ctor.max_date, ctor.seed, ctor.entropy)
    /\ UNCHANGED <<uploadvars, ctor, draws, review, flowvars>>

\* The same, with the date_between call of the j-th user returning any of
\* its possible results.
ConstructAnyUserJoinDate ==
    /\ gen = NoGen
    /\ LET g == NewGenerator(ctor.min_date, ctor.max_date, ctor.seed, ctor.entropy)
       IN  \E j \in 1 .. UserPoolSize :
           \E jd \in DateBetween(UserJoinStart(ctor.min_date), UserJoinEnd(ctor.min_date)) :
              gen' = [g EXCEPT !.users[j].join_date = jd]
    /\ UNCHANGED <<uploadvars, ctor, draws, review, flowvars>>

\* The same, for the date_between call of the j-th location.
ConstructAnyLocationJoinDate ==
    /\ gen = NoGen
    /\ LET g == NewGenerator(ctor.min_date, ctor.max_date, ctor.seed, ctor.entropy)
       IN  \E j \in 1 .. LocationPoolSize :
           \E jd \in DateBetween(LocationJoinStart(ctor.min_date),
                                 LocationJoinEnd(ctor.min_date)) :
              gen' = [g EXCEPT !.locations[j].join_date = jd]
    /\ UNCHANGED <<uploadvars, ctor, draws, review, flowvars>>

\* generate_review(str(uuid.uuid4())) for the draws d
ReviewWith(d) ==
    /\ gen # NoGen
    /\ review = NoReview
    /\ draws' = d
    /\ review' = GenerateReview(gen, Uuid4(gen.entropy, gen.uuid_reads), d)
    /\ gen' = [AfterReview(gen, d) EXCEPT !.uuid_reads = @ + 1]
    /\ UNCHANGED <<uploadvars, ctor, flowvars>>

ReviewAnyRatings ==
    /\ gen # NoGen
    /\ review = NoReview
    /\ \E m \in ModifierDraws, f \in FoodDraws, o1 \in ModifierDraws, o2 \in ModifierDraws :
        ReviewWith([SeededDraws(gen) EXCEPT
                       !.base_modifier = m, !.food = f, !.u1 = o1, !.u2 = o2])

ReviewAnyTimestamp ==
    /\ gen # NoGen
    /\ review = NoReview
    /\ \E t \in DateTimeBetween(gen.min_date, gen.max_date) :
        ReviewWith([SeededDraws(gen) EXCEPT !.reviewed_at = t])

ReviewAnySelection ==
    /\ gen # NoGen
    /\ review = NoReview
    /\ \E u \in 1 .. Len(gen.users), l \in 1 .. Len(gen.locations) :
        ReviewWith([SeededDraws(gen) EXCEPT !.user = u, !.location = l])

NextRatings == Construct \/ ReviewAnyRatings
SpecRatings == InitUnit /\ [][NextRatings]_vars

\* one seed, one entropy stream and a window of one day for each --min-date
InitOneDay ==
    /\ InitUnit
    /\ ctor.seed = 42
    /\ ctor.entropy = 1
    /\ ctor.max_date = ctor.min_date + SecondsPerDay

NextJoinDates == ConstructAnyUserJoinDate \/ ConstructAnyLocationJoinDate \/ ReviewAnySelection
SpecJoinDates == InitOneDay /\ [][NextJoinDates]_vars

NextTimestamp == Construct \/ ReviewAnyTimestamp
SpecTimestamp == InitOneDay /\ [][NextTimestamp]_vars

-----------------------------------------------------------------------------
(* The two pool builds of __init__, one read of uuid.uuid4() at a time,     *)
(* src/generate_reviews.py:41-97.  Every read may return any identifier.    *)
(* draws holds the locals of the build in progress: which pool is being     *)
(* built, the set user_ids or location_ids, the identifier last read and    *)
(* the number of reads made.                                                *)

\* the reads of uuid4 a build is followed for
MaxReads == 5

\* A slip that drops the membership test of the while loop.
IdIssuedNever(id, ids) == FALSE

\* "user_id not in user_ids", "location_id not in location_ids", negated
IdIssued(id, ids) == id \in ids

\* self.min_date, self.max_date, self.seed, the seeded Faker, empty pools
EmptyGenerator(min_date, max_date, seed, e) ==
    [min_date   |-> min_date,
     max_date   |-> max_date,
     seed       |-> seed,
     rng        |-> SeedInstance(seed),
     entropy    |-> e,
     uuid_reads |-> 0,
     users      |-> <<>>,
     locations  |-> <<>>]

BuildState(pool, ids, drawn, reads) ==
    [pool |-> pool, ids |-> ids, drawn |-> drawn, reads |-> reads]

\* __init__ up to the first statements of _generate_user_pool:
\* self.users = [], user_ids = set()
BeginUserPool ==
    /\ gen = NoGen
    /\ gen' = EmptyGenerator(ctor.min_date, ctor.max_date, ctor.seed, ctor.entropy)
    /\ draws' = BuildState("users", {}, 0, 0)
    /\ UNCHANGED <<uploadvars, ctor, review, flowvars>>

\* one pass of "while True" in _generate_user_pool that reads id: an issued
\* id goes round the loop again, a new one is added to user_ids and the rest
\* of the for body appends the entry
ReadUserId(id) ==
    /\ gen # NoGen
    /\ draws # NoDraws
    /\ draws.pool = "users"
    /\ Len(gen.users) < UserPoolSize
    /\ draws.reads < MaxReads
    /\ IF IdIssued(id, draws.ids)
       THEN /\ gen' = [gen EXCEPT !.uuid_reads = @ + 1]
            /\ draws' = BuildState("users", draws.ids, id, draws.reads + 1)
       ELSE /\ gen' = [gen EXCEPT !.users = Append(@, SeededUser(gen.rng, gen.min_date, id)),
                                  !.rng = RngAfter(@, UserDraws),
                                  !.uuid_reads = @ + 1]
            /\ draws' = BuildState("users", draws.ids \cup {id}, id, draws.reads + 1)
    /\ UNCHANGED <<uploadvars, ctor, review, flowvars>>

\* _generate_user_pool returns and _generate_location_pool starts:
\* self.locations = [], location_ids = set()
BeginLocationPool ==
    /\ gen # NoGen
    /\ draws # NoDraws
    /\ draws.pool = "users"
    /\ Len(gen.users) = UserPoolSize
    /\ gen' = [gen EXCEPT !.locations = <<>>]
    /\ draws' = BuildState("locations", {}, 0, draws.reads)
    /\ UNCHANGED <<uploadvars, ctor, review, flowvars>>

\* the same pass of the loop in _generate_location_pool
ReadLocationId(id) ==
    /\ gen # NoGen
    /\ draws # NoDraws
    /\ draws.pool = "locations"
    /\ Len(gen.locations) < LocationPoolSize
    /\ draws.reads < MaxReads
    /\ IF IdIssued(id, draws.ids)
       THEN /\ gen' = [gen EXCEPT !.uuid_reads = @ + 1]
            /\ draws' = BuildState("locations", draws.ids, id, draws.reads + 1)
       ELSE /\ gen' = [gen EXCEPT
                          !.locations = Append(@, SeededLocation(gen.rng, gen.min_date, id)),
                          !.rng = RngAfter(@, LocationDraws),
                          !.uuid_reads = @ + 1]
            /\ draws' = BuildState("locations", draws.ids \cup {id}, id, draws.reads + 1)
    /\ UNCHANGED <<uploadvars, ctor, review, flowvars>>

\* _generate_location_pool and __init__ return
PoolsBuilt ==
    /\ gen # NoGen
    /\ draws # NoDraws
    /\ draws.pool = "locations"
    /\ Len(gen.locations) = LocationPoolSize
    /\ draws' = BuildState("built", draws.ids, draws.drawn, draws.reads)
    /\ UNCHANGED <<uploadvars, ctor, gen, review, flowvars>>

NextPools ==
    \/ BeginUserPool
    \/ \E id \in UUIDs : ReadUserId(id)
    \/ BeginLocationPool
    \/ \E id \in UUIDs : ReadLocationId(id)
    \/ PoolsBuilt

InitPools ==
    /\ InitUnit
    /\ ctor.entropy = 1
    /\ ctor.max_date = ctor.min_date + SecondsPerDay

SpecPools == InitPools /\ [][NextPools]_vars

-----------------------------------------------------------------------------
(* The upload scripts: upload_with_connection_string,                       *)
(* src/upload_phase1.py:12-80, and upload_with_az_login,                    *)
(* src/upload_phase2.py:26-124.  They differ in how they get their          *)
(* credentials and connect; directory check, glob, upload loop and results  *)
(* are the same statements.  A file is known by its name.                   *)

\* the CSV files ./review_data may hold
MaxCsvFiles == 3
CsvNames == 1 .. MaxCsvFiles

\* the lists glob can return: the files of the directory, each once, in any
\* order
GlobResults ==
    {q \in UNION {[1 .. n -> CsvNames] : n \in 0 .. MaxCsvFiles} :
        \A i, j \in DOMAIN q : q[i] = q[j] => i = j}

\* what a run finds: AZURE_STORAGE_CONNECTION_STRING set, az account show
\* succeeding, an account name in the environment or typed in, ./review_data
\* existing, its CSV files, and whether the client can be built
EnvSpace ==
    [conn_str : BOOLEAN, az_login : BOOLEAN, account_name : BOOLEAN,
     dir_exists : BOOLEAN, files : GlobResults, service_up : BOOLEAN]

\* phase 1, line 19-25: conn_str; phase 2, line 33-52: check_az_login() and
\* account_name
HasCredentials(ph, e) == IF ph = 1 THEN e.conn_str ELSE e.az_login /\ e.account_name

\* A slip that leaves out the try around the loop body: the exception reaches
\* the outer handler, which exits.
PcAfterFailureEscapes == "exit1"

\* "except Exception as e: print(...)" inside the for loop: the loop goes on
PcAfterFailure == "upload"

InitUpload ==
    /\ UnitIdle
    /\ FlowIdle
    /\ phase \in {1, 2}
    /\ env \in EnvSpace
    /\ upload_pc = "start"
    /\ csv_files = <<>>
    /\ cursor = 0
    /\ success_count = 0
    /\ attempted = <<>>
    /\ failed_names = <<>>
    /\ blobs = {}
    /\ tally = NoTally

\* upload_phase1.py:19-25, upload_phase2.py:33-52: sys.exit(1) without them
CheckCredentials ==
    /\ upload_pc = "start"
    /\ upload_pc' = IF HasCredentials(phase, env) THEN "dir" ELSE "exit1"
    /\ UNCHANGED <<unitvars, flowvars, phase, env, csv_files, cursor, success_count,
                   attempted, failed_names, blobs, tally>>

\* upload_phase1.py:28-34, upload_phase2.py:55-60
CheckSourceDir ==
    /\ upload_pc = "dir"
    /\ upload_pc' = IF env.dir_exists THEN "glob" ELSE "exit1"
    /\ UNCHANGED <<unitvars, flowvars, phase, env, csv_files, cursor, success_count,
                   attempted, failed_names, blobs, tally>>

\* upload_phase1.py:37-42, upload_phase2.py:63-68
FindCsvFiles ==
    /\ upload_pc = "glob"
    /\ csv_files' = env.files
    /\ upload_pc' = IF csv_files' = <<>> THEN "exit1" ELSE "connect"
    /\ UNCHANGED <<unitvars, flowvars, phase, env, cursor, success_count,
                   attempted, failed_names, blobs, tally>>

\* upload_phase1.py:44-56, upload_phase2.py:70-95: the client is built and
\* the container created or, if that raises, fetched; an exception of the
\* client goes to the outer handler (line 78-80, 118-124), which exits with
\* 1.  Then success_count = 0 and the loop starts.
Connect ==
    /\ upload_pc = "connect"
    /\ IF env.service_up
       THEN /\ upload_pc' = "upload"
            /\ success_count' = 0
            /\ cursor' = 1
       ELSE /\ upload_pc' = "exit1"
            /\ UNCHANGED <<success_count, cursor>>
    /\ UNCHANGED <<unitvars, flowvars, phase, env, csv_files, attempted, failed_names,
                   blobs, tally>>

\* upload_phase1.py:58-65, upload_phase2.py:97-104: the loop body runs to its
\* end for the next file
UploadSucceeds ==
    /\ upload_pc = "upload"
    /\ cursor <= Len(csv_files)
    /\ attempted' = Append(attempted, csv_files[cursor])
    /\ blobs' = blobs \cup {csv_files[cursor]}
    /\ success_count' = success_count + 1
    /\ cursor' = cursor + 1
    /\ UNCHANGED <<unitvars, flowvars, phase, env, upload_pc, csv_files, failed_names, tally>>

\* upload_phase1.py:59-67, upload_phase2.py:98-106: get_blob_client, open or
\* upload_blob raises an Exception; the handler prints the file's name
UploadRaises ==
    /\ upload_pc = "upload"
    /\ cursor <= Len(csv_files)
    /\ attempted' = Append(attempted, csv_files[cursor])
    /\ failed_names' = Append(failed_names, csv_files[cursor])
    /\ cursor' = cursor + 1
    /\ upload_pc' = PcAfterFailure
    /\ UNCHANGED <<unitvars, flowvars, phase, env, csv_files, success_count, blobs, tally>>

\* upload_phase1.py:69-76, upload_phase2.py:108-116: after the last file
PrintResults ==
    /\ upload_pc = "upload"
    /\ cursor > Len(csv_files)
    /\ tally' = [uploaded |-> success_count, found |-> Len(csv_files)]
    /\ upload_pc' = "done"
    /\ UNCHANGED <<unitvars, flowvars, phase, env, csv_files, cursor, success_count,
                   attempted, failed_names, blobs>>

NextUpload ==
    \/ CheckCredentials
    \/ CheckSourceDir
    \/ FindCsvFiles
    \/ Connect
    \/ UploadSucceeds
    \/ UploadRaises
    \/ PrintResults

SpecUpload == InitUpload /\ [][NextUpload]_vars

-----------------------------------------------------------------------------
\* C6: every rating of a generated record is an integer in 1..5, for every
\* combination of the mood modifier, the food draw and the two offsets.
C6_RatingsInRange ==
    review # NoReview =>
        /\ review.food_rating \in 1 .. 5
        /\ review.price_rating \in 1 .. 5
        /\ review.staff_rating \in 1 .. 5
        /\ review.overall_rating \in 1 .. 5

\* The clamp acts at both ends: food 5 with modifier and offset +1 would give
\* a price of 7, food 1 with modifier and offset -1 a staff rating of -1.
C6_Witness ==
    /\ review # NoReview
    /\ \/ draws.food + draws.base_modifier + draws.u1 = 7 /\ review.price_rating = 5
       \/ draws.food + draws.base_modifier + draws.u2 = -1 /\ review.staff_rating = 1

\* C7: the overall rating is the rounded-half-up weighted mean of the
\* record's own three sub-ratings, clamped to 1..5; it is never a draw.
C7_OverallDerived ==
    review # NoReview =>
        review.overall_rating =
            Clamp15((4 * review.food_rating + 3 * review.price_rating
                     + 3 * review.staff_rating + 5) \div 10)

\* Rounding acts: the weighted mean has a fraction of at least one half and the
\* overall rating is the next integer up (food 3, price 2, staff 3 weighs 2.7).
C7_Witness ==
    /\ review # NoReview
    /\ WeightedTenths(review.food_rating, review.price_rating, review.staff_rating) % 10 >= 5
    /\ review.overall_rating =
           (WeightedTenths(review.food_rating, review.price_rating, review.staff_rating) \div 10) + 1

\* the window of a generator as formatted instants: min_date 00:00:00 and
\* max_date 23:59:59
WindowFirst(g) == StrftimeDateTime(g.min_date)
WindowLast(g) == StrftimeDateTime(g.max_date + SecondsPerDay - 1)

\* C8: a record's reviewed_at lies in the window, and the values it can take
\* are exactly the one-second instants from min_date 00:00:00 through
\* max_date 23:59:59, those of max_date after midnight included.
C8_TimestampsSpanWindow ==
    review # NoReview =>
        /\ FmtLeq(WindowFirst(gen), review.reviewed_at)
        /\ FmtLeq(review.reviewed_at, WindowLast(gen))
        /\ DateTimeBetween(gen.min_date, gen.max_date)
               = gen.min_date .. (gen.max_date + SecondsPerDay - 1)

\* C10: every user of a pool joined between two years and 30 days before the
\* window opens, every location between five years and 60 days before it, and
\* so both join dates of a record are strictly earlier than the window start.
C10_JoinDatesBeforeWindow ==
    gen # NoGen =>
        LET first == DateOf(gen.min_date)
            start == StrftimeDate(first)
        IN  /\ \A j \in 1 .. Len(gen.users) :
                  /\ FmtLeq(YearsBefore(start, 2), StrftimeDate(gen.users[j].join_date))
                  /\ gen.users[j].join_date <= first - 30
               \* the date_between arguments are 730 and 30 days of look-back
            /\ \A j \in 1 .. Len(gen.locations) :
                  /\ FmtLeq(YearsBefore(start, 5), StrftimeDate(gen.locations[j].join_date))
                  /\ gen.locations[j].join_date <= first - 60
            /\ review # NoReview =>
                  /\ FmtLess(review.user_join_date, start)
                  /\ FmtLess(review.location_join_date, start)

\* A record of a user who joined on the last day the look-back allows, and one
\* of a location that joined on the first day it allows.
C10_Witness ==
    /\ review # NoReview
    /\ \/ review.user_join_date = StrftimeDate(DateOf(gen.min_date) - 30)
       \/ review.location_join_date = StrftimeDate(DateOf(gen.min_date) - 365 * 5)

-----------------------------------------------------------------------------
\* C1: two runs of generate_single_file with the same base seed, file index,
\* row count and window write the same records in the same order.
C1_RunsIdentical ==
    \A i \in FileIdx :
        (task[i].status = "done" /\ previous[i].exists) => disk[i].rows = previous[i].rows

\* C2: under every schedule and worker count the generator of file i is
\* seeded with seed + i, and the file written for i is the one every other
\* run of the same command line writes for i.
C2_ContentIndependentOfSchedule ==
    \A i \in FileIdx :
        /\ task[i].gen # NoGen => task[i].gen.seed = args.seed + i
        /\ (task[i].status = "done" /\ previous[i].exists) => disk[i] = previous[i]

\* C3: when a call fails while others are submitted, the failure stays in the
\* completion loop: main neither unwinds nor ends with the exception, and it
\* ends with its report and with every call that succeeded counted.
C3_FailureIsolated ==
    (args # NoArgs /\ args.files >= 2 /\ \E i \in Submitted : task[i].status = "failed") =>
        /\ pc \notin {"unwinding", "crashed"}
        /\ (\A i \in Submitted : i \in yielded) =>
              /\ pc \in {"report", "done"}
              /\ completed_files = Cardinality({i \in Submitted : task[i].status = "done"})

\* C4: a command line with a count that is not positive or a window that is
\* empty or inverted ends in the configuration error: the output directory is
\* not created, nothing is submitted, no pool is built and no file written.
C4_InvalidConfigStopsEarly ==
    (/\ args # NoArgs
     /\ \/ args.files <= 0
        \/ args.rows <= 0
        \/ args.workers <= 0
        \/ ~FmtLess(args.min_date, args.max_date)) =>
        /\ pc \in {"validate", "config_error"}
        /\ ~dir_created
        /\ Submitted = {}
        /\ \A i \in FileIdx : task[i].gen = NoGen /\ ~disk[i].exists

\* the window of one instant, min_date = max_date, is rejected
C4_Witness ==
    /\ pc = "config_error"
    /\ args.min_date = args.max_date
    /\ args.files > 0 /\ args.rows > 0 /\ args.workers > 0

\* C5: generate_single_file called with a row count that is not positive
\* fails before a pool is built; it returns no empty batch and writes no file.
C5_RowsPreconditionEnforced ==
    \A i \in FileIdx :
        (task[i].status # "none" /\ task[i].num_rows <= 0) =>
            /\ task[i].status \in {"pending", "failed"}
            /\ task[i].gen = NoGen
            /\ ~disk[i].exists

\* a record's user and location fields are those of one entry of each pool
RecordFromPools(r, g) ==
    /\ \E j \in 1 .. Len(g.users) :
          /\ r.user_id = g.users[j].user_id
          /\ r.user_first_name = g.users[j].first_name
          /\ r.user_last_name = g.users[j].last_name
          /\ r.user_city = g.users[j].city
          /\ r.user_postal_code = g.users[j].postal_code
          /\ r.user_country = g.users[j].country
          /\ IsDate(r.user_join_date)
          /\ DayNumber(r.user_join_date) = g.users[j].join_date
    /\ \E j \in 1 .. Len(g.locations) :
          /\ r.location_id = g.locations[j].location_id
          /\ r.location_name = g.locations[j].name
          /\ r.location_city = g.locations[j].city
          /\ r.location_postal_code = g.locations[j].postal_code
          /\ r.location_country = g.locations[j].country
          /\ r.location_owner_first_name = g.locations[j].owner_first_name
          /\ r.location_owner_last_name = g.locations[j].owner_last_name
          /\ IsDate(r.location_join_date)
          /\ DayNumber(r.location_join_date) = g.locations[j].join_date

RecordsFromPools ==
    \A i \in FileIdx :
        task[i].gen # NoGen =>
            /\ \A n \in 1 .. Len(task[i].data) : RecordFromPools(task[i].data[n], task[i].gen)
            /\ task[i].status = "done" =>
                  \A n \in 1 .. Len(disk[i].rows) : RecordFromPools(disk[i].rows[n], task[i].gen)

PoolsKept ==
    \A i \in FileIdx :
        (task[i].gen # NoGen /\ task'[i].gen # NoGen) =>
            /\ task'[i].gen.users = task[i].gen.users
            /\ task'[i].gen.locations = task[i].gen.locations

\* C9: every record of a file carries the identifier and the profile fields of
\* one entry of the user pool and of one entry of the location pool of the
\* generator that made it, and no step changes a pool once it is built.
C9_RecordsReferToPools == []RecordsFromPools /\ [][PoolsKept]_vars

\* a written file whose record carries the second user of the pool
C9_Witness ==
    \E i \in FileIdx :
        /\ task[i].status = "done"
        /\ Len(disk[i].rows) >= 1
        /\ \E n \in 1 .. Len(disk[i].rows) :
              disk[i].rows[n].user_id = task[i].gen.users[UserPoolSize].user_id

Distinct(ids, n) == Cardinality(ids) = n

BuildInOrder ==
    (gen # NoGen /\ draws # NoDraws) =>
        /\ Distinct(UserIds(gen.users), Len(gen.users))
        /\ Distinct(LocationIds(gen.locations), Len(gen.locations))
        /\ Len(gen.users) <= UserPoolSize
        /\ Len(gen.locations) <= LocationPoolSize
        /\ draws.pool = "users" => draws.ids = UserIds(gen.users)
        /\ draws.pool = "locations" => draws.ids = LocationIds(gen.locations)
        /\ draws.pool = "built" =>
              /\ Len(gen.users) = UserPoolSize
              /\ Len(gen.locations) = LocationPoolSize

\* a read during a build: an identifier in the set leaves the pool as it was,
\* any other is the identifier of the one entry appended
ReadDiscardsOrAppends ==
    (/\ gen # NoGen /\ draws # NoDraws
     /\ draws'.reads = draws.reads + 1) =>
        /\ draws.pool = "users" =>
              IF draws'.drawn \in UserIds(gen.users)
              THEN gen'.users = gen.users
              ELSE /\ Len(gen'.users) = Len(gen.users) + 1
                   /\ SubSeq(gen'.users, 1, Len(gen.users)) = gen.users
                   /\ gen'.users[Len(gen'.users)].user_id = draws'.drawn
        /\ draws.pool = "locations" =>
              IF draws'.drawn \in LocationIds(gen.locations)
              THEN gen'.locations = gen.locations
              ELSE /\ Len(gen'.locations) = Len(gen.locations) + 1
                   /\ SubSeq(gen'.locations, 1, Len(gen.locations)) = gen.locations
                   /\ gen'.locations[Len(gen'.locations)].location_id = draws'.drawn

\* C11: whatever identifiers uuid4 returns, a finished pool build holds
\* exactly UserPoolSize users and LocationPoolSize locations with pairwise
\* distinct identifiers; a read that returns an identifier already issued in
\* that build is discarded, and an entry is appended only with an identifier
\* not issued before.
C11_PoolIdsDistinct == []BuildInOrder /\ [][ReadDiscardsOrAppends]_vars

\* both pools built after a read was discarded
C11_Witness ==
    /\ gen # NoGen
    /\ draws # NoDraws
    /\ draws.pool = "built"
    /\ draws.reads > UserPoolSize + LocationPoolSize

\* C12: once main has observed the interrupt, a call that has not started is
\* not started, a call in flight stays in flight or ends on its own, and main
\* does not end while a call is in flight.
C12_CancelStopsScheduling ==
    [][pc = "interrupted" =>
          /\ \A i \in FileIdx :
                /\ task[i].status = "pending" => task'[i].status = "pending"
                /\ task[i].status \in {"generator", "batch"} =>
                      task'[i].status \in {"generator", "batch", "done", "failed"}
          /\ pc' = "crashed" => \A i \in FileIdx : ~Running(i)]_vars

NotUploaded(name) == name \notin blobs

\* C13: in either script an upload that raises is caught at its file and its
\* name printed; the loop goes on, so the files found are attempted once each
\* in the order of csv_files, the script never exits with 1 once the loop has
\* started, success_count is the number of attempted files whose upload did
\* not raise and lies in 0 .. len(csv_files), and the tally line is printed
\* with these two numbers whether or not an upload failed.
C13_UploadFailureIsolated ==
    /\ upload_pc \in {"upload", "done"} =>
          /\ cursor \in 1 .. Len(csv_files) + 1
          /\ attempted = SubSeq(csv_files, 1, cursor - 1)
          /\ failed_names = SelectSeq(attempted, NotUploaded)
          /\ success_count = Len(attempted) - Len(failed_names)
          /\ success_count \in 0 .. Len(csv_files)
    /\ upload_pc = "exit1" => attempted = <<>>
    /\ upload_pc = "done" =>
          /\ attempted = csv_files
          /\ tally = [uploaded |-> success_count, found |-> Len(csv_files)]
    /\ upload_pc # "done" => tally = NoTally

\* a finished run whose first file failed and whose later file was uploaded
C13_Witness ==
    /\ upload_pc = "done"
    /\ Len(csv_files) >= 2
    /\ failed_names # <<>>
    /\ failed_names[1] = csv_files[1]
    /\ success_count >= 1
    /\ tally.uploaded < tally.found
====
